---- MODULE Spec2Model ----
(***************************************************************************)
(* H-Inception (classifiers/H_Inception.py): construction of the network   *)
(* graph (hybrid layer, inception modules, shortcut layers), and the       *)
(* fit / predict driver around the best-model checkpoint file.             *)
(*                                                                         *)
(* Tensors are symbolic: a tensor is the layer call that produced it and   *)
(* its channel count.  Kernel weights are exact rationals <<num, den>>.    *)
(***************************************************************************)
EXTENDS Integers, Sequences, FiniteSets, TLC

\* ---------------------------------------------------------------- bounds
MaxDepth == 8
MaxNegDepth == 1
MaxCf == 2
MaxSmallFilters == 1
MaxBatch == 2
MaxEpochs == 2
MaxN == 11
MaxLoss == 2
MaxFits == 2

\* ------------------------------------------------------ program constants
DefaultMaxCf == 6
DefaultNFilters == 32
DefaultDepth == 6
DefaultBatchSize == 64
DefaultEpochs == 1500
InputChannels == 1

Min(a, b) == IF a < b THEN a ELSE b

RECURSIVE Pow2(_)
Pow2(i) == IF i <= 0 THEN 1 ELSE 2 * Pow2(i - 1)

\* [f(i) for i in range(lo, hi)] as a sequence
PowersOfTwo(lo, hi) == [i \in 1..(IF hi > lo THEN hi - lo ELSE 0) |-> Pow2(lo + i - 1)]

\* self.kernel_sizes
kernel_sizes == <<40, 20, 10>>

\* default value of hybrid_layer's kernel_sizes parameter
hybrid_kernel_sizes == <<2, 4, 8, 16, 32, 64>>

\* ------------------------------------------------------ rational weights
Rat(n, dn) == <<n, dn>>
RNeg(r) == <<0 - r[1], r[2]>>
RScale(k, r) == <<k * r[1], r[2]>>
REq(r, s) == r[1] * s[2] = s[1] * r[2]

\* ------------------------------------------------------ numpy helpers
\* np.ones / np.zeros of shape (n, input_channels, 1)
np_full(n, input_channels, v) == [i \in 1..n |-> [c \in 1..input_channels |-> v]]

\* a[::-1]
np_reverse(a) == [i \in 1..Len(a) |-> a[Len(a) + 1 - i]]

\* np.linspace(start=0, stop=1, num=q+1)[1:] : the points j/q, j = 1..q
\* (variant: [:-1] instead of [1:], the points 0 .. (q-1)/q)
xmesh_keeps_zero(kernel_size) ==
  LET q == kernel_size \div 4
  IN [j \in 1..q |-> Rat(j - 1, q)]
xmesh_of(kernel_size) ==
  LET q == kernel_size \div 4
  IN [j \in 1..q |-> Rat(j, q)]

\* xmesh ** 2
np_square(a) == [i \in 1..Len(a) |-> Rat(a[i][1] * a[i][1], a[i][2] * a[i][2])]

np_neg(a) == [i \in 1..Len(a) |-> RNeg(a[i])]
np_times(k, a) == [i \in 1..Len(a) |-> RScale(k, a[i])]

\* One slice assignment filter_[lo:hi] = v, v of shape (Len(v), 1, 1), on
\* an array of n taps.  numpy clips the slice to the array and broadcasts v
\* along the channel axis, and along the tap axis only when Len(v) = 1; any
\* other length mismatch raises ValueError.
slice_lo(n, s) == Min(s.lo, n)
slice_hi(n, s) == Min(s.hi, n)
slice_len(n, s) ==
  IF slice_hi(n, s) > slice_lo(n, s) THEN slice_hi(n, s) - slice_lo(n, s) ELSE 0
slice_fits(n, s) == Len(s.v) = slice_len(n, s) \/ Len(s.v) = 1
slice_covers(n, s, p) == p > slice_lo(n, s) /\ p <= slice_hi(n, s)
slice_value(n, s, p) ==
  IF Len(s.v) = slice_len(n, s) THEN s.v[p - slice_lo(n, s)] ELSE s.v[1]

\* The assignments segs[1], segs[2], ... applied in order to the array f0:
\* a tap holds the value of the last assignment that covers it; the run
\* stops at the first assignment that does not fit.
slice_assign(f0, segs) ==
  LET n == Len(f0)
      done(k) == \A j \in 1..k : slice_fits(n, segs[j])
  IN [ok |-> \A k \in DOMAIN segs : slice_fits(n, segs[k]),
      taps |-> [p \in 1..n |->
                  LET cover == {k \in DOMAIN segs :
                                  done(k) /\ slice_covers(n, segs[k], p)}
                  IN IF cover = {} THEN f0[p]
                     ELSE LET last == CHOOSE k \in cover :
                                        \A j \in cover : j <= k
                          IN [c \in 1..Len(f0[p]) |->
                                slice_value(n, segs[last], p)]]]

\* ------------------------------------------------------ custom filters
\* filter_ = ones; filter_[indices_ % 2 == 0] *= -1   (0-indexed positions)
increasing_filter(kernel_size, input_channels) ==
  [i \in 1..kernel_size |->
     [c \in 1..input_channels |->
        IF (i - 1) % 2 = 0 THEN Rat(0 - 1, 1) ELSE Rat(1, 1)]]

\* filter_ = ones; filter_[indices_ % 2 > 0] *= -1
\* (variant: the mask of the increasing filter reused)
decreasing_filter_same_mask(kernel_size, input_channels) ==
  [i \in 1..kernel_size |->
     [c \in 1..input_channels |->
        IF (i - 1) % 2 = 0 THEN Rat(0 - 1, 1) ELSE Rat(1, 1)]]
decreasing_filter(kernel_size, input_channels) ==
  [i \in 1..kernel_size |->
     [c \in 1..input_channels |->
        IF (i - 1) % 2 > 0 THEN Rat(0 - 1, 1) ELSE Rat(1, 1)]]

\* the six slice assignments of the peak filter, in source order
\* (variant: the last two slices swapped)
peak_slices_fifth_reversed(K, total, filter_left, filter_right) ==
  << [lo |-> 0, hi |-> K \div 4, v |-> np_neg(filter_left)],
     [lo |-> K \div 4, hi |-> K \div 2, v |-> np_neg(filter_right)],
     [lo |-> K \div 2, hi |-> (3 * K) \div 4, v |-> np_times(2, filter_left)],
     [lo |-> (3 * K) \div 4, hi |-> K, v |-> np_times(2, filter_right)],
     [lo |-> K, hi |-> (5 * K) \div 4, v |-> np_neg(filter_right)],
     [lo |-> (5 * K) \div 4, hi |-> total, v |-> np_neg(filter_left)] >>
peak_slices(K, total, filter_left, filter_right) ==
  << [lo |-> 0, hi |-> K \div 4, v |-> np_neg(filter_left)],
     [lo |-> K \div 4, hi |-> K \div 2, v |-> np_neg(filter_right)],
     [lo |-> K \div 2, hi |-> (3 * K) \div 4, v |-> np_times(2, filter_left)],
     [lo |-> (3 * K) \div 4, hi |-> K, v |-> np_times(2, filter_right)],
     [lo |-> K, hi |-> (5 * K) \div 4, v |-> np_neg(filter_left)],
     [lo |-> (5 * K) \div 4, hi |-> total, v |-> np_neg(filter_right)] >>

\* filter_ of one peak kernel: zeros of K + K // 2 taps, then the slices
peak_filter(kernel_size, input_channels) ==
  LET total == kernel_size + kernel_size \div 2
      filter_left == np_square(xmesh_of(kernel_size))
      filter_right == np_reverse(filter_left)
  IN slice_assign(np_full(total, input_channels, Rat(0, 1)),
                  peak_slices(kernel_size, total, filter_left, filter_right))

\* kernel_sizes[1:]
peak_sizes(sizes) == IF Len(sizes) = 0 THEN << >> ELSE Tail(sizes)

\* hybrid_layer: one non-trainable Conv1D (filters=1) per generated kernel,
\* concatenated on the channel axis.  keep_track numbers the layers.
hybrid_layer(input_channels, sizes, track) ==
  LET n == Len(sizes)
      ps == peak_sizes(sizes)
      inc == [i \in 1..n |->
                [family |-> "increasse", kernel_size |-> sizes[i],
                 track |-> track + i - 1, filters |-> 1, ok |-> TRUE,
                 taps |-> increasing_filter(sizes[i], input_channels)]]
      dec == [i \in 1..n |->
                [family |-> "decrease", kernel_size |-> sizes[i],
                 track |-> track + n + i - 1, filters |-> 1, ok |-> TRUE,
                 taps |-> decreasing_filter(sizes[i], input_channels)]]
      peak == [i \in 1..Len(ps) |->
                LET pf == peak_filter(ps[i], input_channels)
                IN [family |-> "peeks", kernel_size |-> ps[i],
                    track |-> track + 2 * n + i - 1, filters |-> 1,
                    ok |-> pf.ok, taps |-> pf.taps]]
  IN [conv_list |-> inc \o dec \o peak,
      keep_track |-> track + 2 * n + Len(ps)]

\* ------------------------------------------------------ state
VARIABLES
  self,         \* constructor arguments and the kernel-length lists (__init__)
  pc,           \* position: "init" | "loop" | "ready"
  d,            \* loop index of build_model
  x,            \* current activation
  input_res,    \* residual anchor
  graph,        \* layer calls made so far, in call order
  keep_track,   \* self.keep_track
  hybrid,       \* conv_list of self.hybrid (empty while unset)
  model,        \* self.model
  weights,      \* version of the weights held by self.model
  best,         \* ModelCheckpoint's best monitored loss so far
  file,         \* output_directory + 'best_model.hdf5' on disk
  nfits,        \* number of fit calls made
  fit_out,      \* outcome of the last fit call
  pred          \* outcome of the last predict call

vars == <<self, pc, d, x, input_res, graph, keep_track, hybrid, model,
          weights, best, file, nfits, fit_out, pred>>

NoTensor == [op |-> "none", d |-> 0, ch |-> 0]
NoModel == [built |-> FALSE, inputs |-> NoTensor, pooled |-> NoTensor]
NoFile == [exists |-> FALSE, origin |-> "none", w |-> 0]
StaleFile == [exists |-> TRUE, origin |-> "stale", w |-> 0]
NoLoaded == [origin |-> "none", w |-> 0]

\* tf.keras.layers.Input((self.length_TS, 1))
input_layer == [op |-> "input", d |-> 0, ch |-> InputChannels]

NFilterChoices == (1..MaxSmallFilters) \cup {DefaultNFilters}
MaxCfChoices == (1..MaxCf) \cup {DefaultMaxCf}
DepthChoices == (0 - MaxNegDepth)..MaxDepth

\* monitored loss of an epoch; NaN never compares less than anything
NaN == 0
Inf == MaxLoss + 1
Losses == {NaN} \cup (1..MaxLoss)

\* the instance after __init__, lines 34-54 (build_model is the actions
\* below), and the checkpoint path as found on disk
Constructed(dp, ur, ub, nf, cf, bs, ep, f) ==
  /\ self = [depth |-> dp, use_residual |-> ur, use_bottleneck |-> ub,
             n_filters |-> nf, bottleneck_size |-> nf,
             max_cf_length |-> cf, batch_size |-> bs, epochs |-> ep,
             increasing_trend_kernels |-> PowersOfTwo(1, cf + 1),
             decreasing_trend_kernels |-> PowersOfTwo(1, cf + 1),
             peak_kernels |-> PowersOfTwo(2, cf + 1)]
  /\ pc = "init"
  /\ d = 0
  /\ x = NoTensor
  /\ input_res = NoTensor
  /\ graph = << >>
  /\ keep_track = 0
  /\ hybrid = << >>
  /\ model = NoModel
  /\ weights = 0
  /\ best = Inf
  /\ file = f
  /\ nfits = 0
  /\ fit_out = [status |-> "none", mini_batch_size |-> 0]
  /\ pred = [status |-> "none", loaded |-> NoLoaded, returned |-> FALSE]

\* any constructor arguments
Init ==
  \E dp \in DepthChoices, ur \in BOOLEAN, ub \in BOOLEAN,
     nf \in NFilterChoices, cf \in MaxCfChoices,
     bs \in 1..MaxBatch, ep \in 0..MaxEpochs, f \in {NoFile, StaleFile} :
    Constructed(dp, ur, ub, nf, cf, bs, ep, f)

\* the arguments build_model reads; batch_size and epochs at their defaults
BuildInit ==
  \E dp \in DepthChoices, ur \in BOOLEAN, ub \in BOOLEAN,
     nf \in NFilterChoices, cf \in MaxCfChoices :
    Constructed(dp, ur, ub, nf, cf, DefaultBatchSize, DefaultEpochs, NoFile)

\* the arguments fit and predict read; the architecture at its defaults
DriverInit ==
  \E bs \in 1..MaxBatch, ep \in 0..MaxEpochs, f \in {NoFile, StaleFile} :
    Constructed(DefaultDepth, TRUE, TRUE, DefaultNFilters, DefaultMaxCf,
                bs, ep, f)

\* ------------------------------------------------------ layers
RECURSIVE SumSeq(_)
SumSeq(s) == IF Len(s) = 0 THEN 0 ELSE Head(s) + SumSeq(Tail(s))

\* Concatenate(axis=2): channel counts add up
concat_channels(chs) == SumSeq(chs)

\* _inception_module(input_tensor, use_hybrid_layer) called for loop index idx
inception_module(input_tensor, use_hybrid_layer, idx, track) ==
  LET bottleneck == self.use_bottleneck /\ input_tensor.ch > 1
      input_inception_ch == IF bottleneck THEN self.bottleneck_size
                                          ELSE input_tensor.ch
      convs == [i \in 1..Len(kernel_sizes) |-> self.n_filters]
      conv_6 == self.n_filters
      hl == hybrid_layer(input_tensor.ch, hybrid_kernel_sizes, track)
      hybrid_ch == concat_channels([i \in 1..Len(hl.conv_list) |->
                                      hl.conv_list[i].filters])
      branches == IF use_hybrid_layer
                    THEN Append(Append(convs, conv_6), hybrid_ch)
                    ELSE Append(convs, conv_6)
      out == [op |-> "inception", d |-> idx, ch |-> concat_channels(branches)]
  IN [out |-> out,
      node |-> [op |-> "inception", d |-> idx, input |-> input_tensor,
                anchor |-> NoTensor, inner_ch |-> input_inception_ch,
                fused |-> use_hybrid_layer, out |-> out],
      hybrid |-> IF use_hybrid_layer THEN hl.conv_list ELSE hybrid,
      keep_track |-> IF use_hybrid_layer THEN hl.keep_track ELSE track]

\* _shortcut_layer(input_tensor, out_tensor): 1x1 projection of the anchor to
\* out_tensor's channel count, BatchNorm, Add, relu
shortcut_layer(input_tensor, out_tensor, idx) ==
  LET out == [op |-> "shortcut", d |-> idx, ch |-> out_tensor.ch]
  IN [out |-> out,
      node |-> [op |-> "shortcut", d |-> idx, input |-> out_tensor,
                anchor |-> input_tensor, inner_ch |-> out_tensor.ch,
                fused |-> FALSE, out |-> out]]

\* the cadence test of build_model, line 228
\* (variant: cadence counted from the first module)
fires_shortcut_every_first(idx) == self.use_residual /\ idx % 3 = 0
fires_shortcut(idx) == self.use_residual /\ idx % 3 = 2

\* "if d == 0": the hybrid layer goes into the first module only, line 221
\* (variant: hybrid layer in every module)
use_hybrid_always(idx) == TRUE
use_hybrid_at(idx) == idx = 0

\* input_res after one iteration: "input_res = x" runs only inside the
\* shortcut branch, line 230
\* (variant: the anchor stays the raw input)
next_anchor_never_reset(fired, anchor, out) == anchor
next_anchor(fired, anchor, out) == IF fired THEN out ELSE anchor

\* ------------------------------------------------------ build_model
\* lines 206-213
build_begin ==
  /\ pc = "init"
  /\ keep_track' = 0
  /\ x' = input_layer
  /\ input_res' = input_layer
  /\ d' = 0
  /\ pc' = "loop"
  /\ UNCHANGED <<self, graph, hybrid, model, weights, best, file, nfits,
                 fit_out, pred>>

\* one iteration of "for d in range(self.depth)", lines 217-230
build_step ==
  /\ pc = "loop"
  /\ d < self.depth
  /\ LET m == inception_module(x, use_hybrid_at(d), d, keep_track)
     IN /\ hybrid' = m.hybrid
        /\ keep_track' = m.keep_track
        /\ IF fires_shortcut(d)
             THEN LET s == shortcut_layer(input_res, m.out, d)
                  IN /\ x' = s.out
                     /\ input_res' = next_anchor(TRUE, input_res, s.out)
                     /\ graph' = Append(Append(graph, m.node), s.node)
             ELSE /\ x' = m.out
                  /\ input_res' = next_anchor(FALSE, input_res, m.out)
                  /\ graph' = Append(graph, m.node)
  /\ d' = d + 1
  /\ UNCHANGED <<self, pc, model, weights, best, file, nfits, fit_out, pred>>

\* lines 232-249: pooling, head, Model, compile, callbacks
build_end ==
  /\ pc = "loop"
  /\ ~(d < self.depth)
  /\ model' = [built |-> TRUE, inputs |-> input_layer, pooled |-> x]
  /\ weights' = 0
  /\ best' = Inf
  /\ pc' = "ready"
  /\ UNCHANGED <<self, d, x, input_res, graph, keep_track, hybrid, file,
                 nfits, fit_out, pred>>

\* ------------------------------------------------------ fit / predict
\* min(self.batch_size, n // 10), line 257
mini_batch_size_of(n) == Min(self.batch_size, n \div 10)

\* ModelCheckpoint(monitor='loss', save_best_only=True): np.less(loss, best)
improves(loss, b) == loss # NaN /\ loss < b

\* self.model.fit(...): one weight update and one checkpoint decision per
\* epoch; st = [w, best, file]
RECURSIVE train(_, _)
train(st, losses) ==
  IF Len(losses) = 0 THEN st
  ELSE LET w1 == st.w + 1
           l == Head(losses)
           st1 == IF improves(l, st.best)
                    THEN [w |-> w1, best |-> l,
                          file |-> [exists |-> TRUE, origin |-> "fit", w |-> w1]]
                    ELSE [w |-> w1, best |-> st.best, file |-> st.file]
       IN train(st1, Tail(losses))

LossRuns(n) == [1..n -> Losses]

\* self.model.fit from the current weights, callback state and file
trained(losses) == train([w |-> weights, best |-> best, file |-> file], losses)

\* fit(xtrain, ytrain): n training samples, the losses are the framework's
fit ==
  /\ pc = "ready"
  /\ nfits < MaxFits
  /\ \E n \in 1..MaxN :
       IF mini_batch_size_of(n) < 1
         THEN \* the framework rejects an empty batch
              /\ fit_out' = [status |-> "error",
                             mini_batch_size |-> mini_batch_size_of(n)]
              /\ UNCHANGED <<weights, best, file>>
         ELSE \E losses \in LossRuns(self.epochs) :
                /\ fit_out' = [status |-> "ok",
                               mini_batch_size |-> mini_batch_size_of(n)]
                /\ weights' = trained(losses).w
                /\ best' = trained(losses).best
                /\ file' = trained(losses).file
  /\ nfits' = nfits + 1
  /\ UNCHANGED <<self, pc, d, x, input_res, graph, keep_track, hybrid, model,
                 pred>>

\* tf.keras.models.load_model(path): raises when the file does not exist
\* (variant: inference with self.model instead of the file)
load_model_in_memory(f) ==
  [ok |-> TRUE, loaded |-> [origin |-> "memory", w |-> weights]]
load_model(f) ==
  IF f.exists THEN [ok |-> TRUE, loaded |-> [origin |-> f.origin, w |-> f.w]]
              ELSE [ok |-> FALSE, loaded |-> NoLoaded]

\* predict(xtest, ytest), lines 299-308
predict ==
  /\ pc = "ready"
  /\ LET r == load_model(file)
     IN pred' = IF r.ok
                  THEN [status |-> "ok", loaded |-> r.loaded, returned |-> TRUE]
                  ELSE [status |-> "error", loaded |-> NoLoaded,
                        returned |-> FALSE]
  /\ UNCHANGED <<self, pc, d, x, input_res, graph, keep_track, hybrid, model,
                 weights, best, file, nfits, fit_out>>

Next == build_begin \/ build_step \/ build_end \/ fit \/ predict

Spec == Init /\ [][Next]_vars

\* construction alone
NextBuild == build_begin \/ build_step \/ build_end

SpecBuild == BuildInit /\ [][NextBuild]_vars

\* construction with the default architecture, then fit and predict calls
SpecDriver == DriverInit /\ [][Next]_vars

TypeOK ==
  /\ pc \in {"init", "loop", "ready"}
  /\ d \in 0..(MaxDepth + 1)
  /\ nfits \in 0..(MaxFits + 1)

\* ------------------------------------------------------ properties
M == self.max_cf_length
hybrid_built == hybrid # << >>
Family(fam) == SelectSeq(hybrid, LAMBDA c : c.family = fam)
Sizes(convs) == [i \in 1..Len(convs) |-> convs[i].kernel_size]
PeakIdx == {i \in DOMAIN hybrid : hybrid[i].family = "peeks"}
IncIdx == {i \in DOMAIN hybrid : hybrid[i].family = "increasse"}
DecIdx == {i \in DOMAIN hybrid : hybrid[i].family = "decrease"}
Channels(conv) == 1..Len(conv.taps[1])
InceptionNodes == SelectSeq(graph, LAMBDA n : n.op = "inception")
ShortcutNodes == SelectSeq(graph, LAMBDA n : n.op = "shortcut")
ShortcutIndices == [i \in 1..Len(ShortcutNodes) |-> ShortcutNodes[i].d]

\* C1: with max_cf_length = M the hybrid layer has 2M + (M-1) output
\* channels: M increasing and M decreasing kernels of lengths 2^1..2^M and
\* M-1 peak kernels of lengths 2^2..2^M.
C1_HybridChannelCount ==
  hybrid_built =>
    /\ Len(hybrid) = 2 * M + (M - 1)
    /\ Sizes(Family("increasse")) = self.increasing_trend_kernels
    /\ Sizes(Family("decrease")) = self.decreasing_trend_kernels
    /\ Sizes(Family("peeks")) = self.peak_kernels

\* C2: a finished build of depth D holds the inception modules 0..D-1 in
\* order; with use_residual a shortcut follows exactly the modules with
\* d mod 3 = 2, in increasing order (D // 3 of them), and without
\* use_residual there is none.
C2_ShortcutCadence ==
  pc = "ready" =>
    /\ Len(InceptionNodes) = (IF self.depth > 0 THEN self.depth ELSE 0)
    /\ \A i \in 1..Len(InceptionNodes) : InceptionNodes[i].d = i - 1
    /\ ShortcutIndices =
         (IF self.use_residual
            THEN [i \in 1..(self.depth \div 3) |-> 3 * i - 1]
            ELSE << >>)
    /\ self.use_residual /\ self.depth >= 0
         => Len(ShortcutNodes) = self.depth \div 3
    /\ \A i \in DOMAIN graph :
         graph[i].op = "shortcut" =>
           /\ i > 1
           /\ graph[i - 1].op = "inception"
           /\ graph[i - 1].d = graph[i].d
           /\ graph[i].input = graph[i - 1].out
C2_Witness ==
  /\ pc = "ready"
  /\ self.depth = 6
  /\ self.use_residual
  /\ ShortcutIndices = <<2, 5>>
  /\ Len(ShortcutNodes) = 2

\* C3: a build with depth < 1 does not finish with a model: it ends in an
\* error and leaves no model on the instance.
C3_FailFast ==
  self.depth < 1 => (pc # "ready" /\ ~model.built)

\* C4 as stated: every peak kernel of length K has K + K//2 taps and segment
\* 1 is the negation of segment 5, tap by tap.
C4_SegmentOneNegatesFive ==
  \A i \in PeakIdx :
    LET K == hybrid[i].kernel_size
        t == hybrid[i].taps
    IN /\ Len(t) = K + K \div 2
       /\ \A j \in 1..(K \div 4) : \A c \in Channels(hybrid[i]) :
            REq(t[j][c], RNeg(t[K + j][c]))

\* C4 amended: every peak kernel of length K has K + K//2 taps and segment 1
\* equals segment 5, tap by tap (both are the negated ramp).
C4_SegmentOneEqualsFive ==
  \A i \in PeakIdx :
    LET K == hybrid[i].kernel_size
        t == hybrid[i].taps
    IN /\ K >= 4
       /\ Len(t) = K + K \div 2
       /\ \A j \in 1..(K \div 4) : \A c \in Channels(hybrid[i]) :
            /\ REq(t[j][c], t[K + j][c])
            /\ t[j][c][1] < 0
C4_Witness ==
  \E i \in PeakIdx : hybrid[i].kernel_size = 16 /\ hybrid[i].ok

\* C5: for every generated length K the increasing kernel is +1 at odd and
\* -1 at even 0-indexed positions, the decreasing kernel of the same K is
\* the opposite, and the two are sign-inverses at every tap and channel.
C5_TrendKernelsInverse ==
  /\ \A i \in IncIdx : \E j \in DecIdx :
       hybrid[j].kernel_size = hybrid[i].kernel_size
  /\ \A i \in IncIdx : \A j \in DecIdx :
       hybrid[i].kernel_size = hybrid[j].kernel_size =>
         LET K == hybrid[i].kernel_size
             inc == hybrid[i].taps
             dec == hybrid[j].taps
         IN /\ Len(inc) = K
            /\ Len(dec) = K
            /\ \A p \in 0..(K - 1) : \A c \in Channels(hybrid[i]) :
                 /\ inc[p + 1][c] = (IF p % 2 = 1 THEN Rat(1, 1)
                                                  ELSE Rat(0 - 1, 1))
                 /\ dec[p + 1][c] = (IF p % 2 = 1 THEN Rat(0 - 1, 1)
                                                  ELSE Rat(1, 1))
                 /\ REq(inc[p + 1][c], RNeg(dec[p + 1][c]))
C5_Witness ==
  /\ \E i \in IncIdx : hybrid[i].kernel_size = 64
  /\ \E j \in DecIdx : hybrid[j].kernel_size = 64

\* C6: the hybrid layer is fused into module 0 only: module 0 has
\* 3*n_filters + n_filters + (hybrid channels) output channels and every
\* later module 3*n_filters + n_filters; 145 and 128 for n_filters = 32
\* and max_cf_length = 6.
C6_HybridOnlyInFirstModule ==
  /\ pc = "ready" /\ self.depth >= 1 =>
       \E i \in DOMAIN graph : graph[i].op = "inception" /\ graph[i].d = 0
  /\ \A i \in DOMAIN graph :
       graph[i].op = "inception" =>
         /\ graph[i].fused = (graph[i].d = 0)
         /\ graph[i].out.ch =
              3 * self.n_filters + self.n_filters
                + (IF graph[i].d = 0 THEN Len(hybrid) ELSE 0)
         /\ self.n_filters = 32 /\ M = 6 =>
              graph[i].out.ch = (IF graph[i].d = 0 THEN 145 ELSE 128)
C6_Witness ==
  /\ pc = "ready"
  /\ self.n_filters = 32
  /\ M = 6
  /\ \E i, j \in DOMAIN graph :
       /\ graph[i].op = "inception" /\ graph[i].d = 0 /\ graph[i].out.ch = 145
       /\ graph[j].op = "inception" /\ graph[j].d = 3 /\ graph[j].out.ch = 128

\* C7: every predict call runs with the model read from the checkpoint file
\* as it is at the call, never with the in-memory model; when the file is
\* missing the call fails and returns nothing.
C7_PredictUsesCheckpoint ==
  /\ [][predict =>
          IF file.exists
            THEN /\ pred'.status = "ok"
                 /\ pred'.returned
                 /\ pred'.loaded = [origin |-> file.origin, w |-> file.w]
            ELSE /\ pred'.status = "error"
                 /\ ~pred'.returned
                 /\ pred'.loaded = NoLoaded]_vars
  /\ [](pred.loaded.origin # "memory")
C7_Witness ==
  /\ pred.status = "ok"
  /\ pred.loaded.origin = "fit"
  /\ pred.loaded.w # weights
  /\ fit_out.status = "ok"

\* C8: input_res starts as the raw input and changes only at a step where a
\* shortcut fires; the shortcut at index 2 is anchored at the raw input, a
\* shortcut at index d >= 5 at the output of the shortcut of index d-3, and
\* right after a shortcut x and input_res are the same tensor.
C8_AnchorFrame ==
  /\ [][build_begin => (x' = input_layer /\ input_res' = input_layer)]_vars
  /\ [][build_step =>
          IF self.use_residual /\ d % 3 = 2
            THEN /\ x' = input_res'
                 /\ x'.op = "shortcut"
                 /\ x'.d = d
            ELSE /\ input_res' = input_res
                 /\ x'.op = "inception"
                 /\ x'.d = d]_vars
  /\ [][input_res' # input_res =>
          (build_begin \/ (build_step /\ self.use_residual /\ d % 3 = 2))]_vars
  /\ [](\A i \in DOMAIN graph :
          graph[i].op = "shortcut" =>
            /\ graph[i].d = 2 => graph[i].anchor = input_layer
            /\ graph[i].d >= 5 =>
                 /\ graph[i].anchor.op = "shortcut"
                 /\ graph[i].anchor.d = graph[i].d - 3
                 /\ \E k \in 1..(i - 1) : graph[k].out = graph[i].anchor)
C8_Witness ==
  \E i \in DOMAIN graph :
    /\ graph[i].op = "shortcut"
    /\ graph[i].d = 5
    /\ graph[i].anchor.op = "shortcut"
    /\ graph[i].anchor.d = 2
    /\ x = input_res

\* C9: for every peak kernel of length K the six slices hold K/4 taps each,
\* tile the K + K/2 taps, and hold -r, -rev(r), 2r, 2rev(r), -r, -rev(r)
\* with r_j = (j/(K/4))^2; every slice assignment fits and no tap is zero.
Ramp(q, j) == Rat(j * j, q * q)
ExpectedTap(q, seg, j) ==
  IF seg = 0 THEN RNeg(Ramp(q, j))
  ELSE IF seg = 1 THEN RNeg(Ramp(q, q + 1 - j))
  ELSE IF seg = 2 THEN RScale(2, Ramp(q, j))
  ELSE IF seg = 3 THEN RScale(2, Ramp(q, q + 1 - j))
  ELSE IF seg = 4 THEN RNeg(Ramp(q, j))
  ELSE RNeg(Ramp(q, q + 1 - j))
C9_PeakSegments ==
  \A i \in PeakIdx :
    LET K == hybrid[i].kernel_size
        q == K \div 4
        t == hybrid[i].taps
        bounds == <<0, K \div 4, K \div 2, (3 * K) \div 4, K, (5 * K) \div 4,
                    Len(t)>>
    IN /\ hybrid[i].ok
       /\ K >= 4
       /\ Len(t) = K + K \div 2
       /\ \A seg \in 0..5 :
            /\ bounds[seg + 1] = seg * q
            /\ bounds[seg + 2] - bounds[seg + 1] = q
       /\ \A seg \in 0..5 : \A j \in 1..q : \A c \in Channels(hybrid[i]) :
            REq(t[seg * q + j][c], ExpectedTap(q, seg, j))
       /\ \A p \in DOMAIN t : \A c \in Channels(hybrid[i]) : t[p][c][1] # 0
C9_Witness ==
  \E i \in PeakIdx :
    /\ hybrid[i].kernel_size = 64
    /\ hybrid[i].ok
    /\ Len(hybrid[i].taps) = 96

\* C10: the mini-batch size fit hands to training, min(batch_size, n // 10),
\* is between 1 and batch_size for every n >= 1.
C10_MiniBatchInRange ==
  fit_out.status # "none" =>
    /\ 1 <= fit_out.mini_batch_size
    /\ fit_out.mini_batch_size <= self.batch_size

====
